---- MODULE Spec2Model ----
(***************************************************************************)
(* Character-level CRDT text replication of exzenter/firemitch:            *)
(*   utils/lamportTimestamp.ts   the Lamport clock (one counter per client)*)
(*   utils/crdtEngine.ts         insert / delete / apply, text, differ     *)
(*   hooks/usePairChatCRDT.ts    listener with the processed-key set,      *)
(*                               sendOperations (optimistic local apply)   *)
(*   components/OnlineGame.tsx   PairChat.handleInput (prefix/suffix diff) *)
(* and the local four-in-a-row game:                                       *)
(*   types/game.ts, stores/gameStore.ts   board, dropPiece, checkWin       *)
(*   (player names and session statistics as the extended store has them)  *)
(* and the matchmaking queue:                                              *)
(*   hooks/useMatchmaking.ts     joinQueue, snapshots, match transaction   *)
(*                                                                         *)
(* A character id "<uid>:<n>" is the pair <<uid, n>>; the null afterId is  *)
(* the empty tuple.  A CRDTDocument is its `characters` array.             *)
(***************************************************************************)
EXTENDS Integers, Sequences, FiniteSets, TLC

VARIABLES
    document,           \* replica -> characters array (useState document)
    processedOps,       \* replica -> processedOpsRef, the set of "<type>:<charId>" keys
    counter,            \* replica -> LamportTimestampManager.counter of that client process
    sequenceNumberRef,  \* replica -> PairChat.sequenceNumberRef
    lastKnownTextRef,   \* replica -> PairChat.lastKnownTextRef
    log,                \* the operations collection of the pair chat (documents in write order)
    arrivals,           \* history: replica -> log positions in the order they first reached it
    minted,             \* history: replica -> character ids its author has assigned, in order
    emitted,            \* history: the batch of operations the last differ call produced
    lastEvent,          \* history: the step taken last
    game,               \* the useGameStore state: board, currentPlayer, winner,
                        \* winningCells, status, players, stats
    error,              \* replica -> the error state of usePairChatCRDT
    matchmaking         \* the matchmaking and games collections and every player's
                        \* useMatchmaking state

vars == <<document, processedOps, counter, sequenceNumberRef, lastKnownTextRef,
          log, arrivals, minted, emitted, lastEvent, game, error, matchmaking>>

----------------------------------------------------------------------------
(* Bounds of the model *)

MaxTextLen == 3
MaxInputLen == 2
MaxLog == 3
MaxOps == 3
MaxDocLen == 2
MaxClock == 5
MaxTick == 10
MaxMoves == 11
MaxCol == 3
MaxRounds == 1
MaxSessionCol == 1
MaxJoins == 4
MaxAttempts == 2
MaxFailLog == 2

Clients == {"u1", "u2"}
Chars == {"a", "b"}
Null == <<>>
Players == {"p1", "p2", "p3"}

----------------------------------------------------------------------------
(* Generic helpers *)

Max(a, b) == IF a >= b THEN a ELSE b

Range(s) == {s[i] : i \in 1..Len(s)}

SeqsUpTo(S, n) == UNION {[1..k -> S] : k \in 0..n}

----------------------------------------------------------------------------
(* utils/lamportTimestamp.ts *)

\* (mutant) getNextTimestamp that returns the counter without incrementing it
getNextTimestampNoTick(c) == c

\* getNextTimestamp: this.counter++; return this.counter
getNextTimestamp(c) == c + 1

\* updateTimestamp: this.counter = Math.max(this.counter, receivedTimestamp) + 1
\* (mutant) the counter is incremented without looking at the received timestamp
updateTimestampLocalOnly(c, receivedTimestamp) == c + 1

\* (mutant) the maximum is taken but the counter is not incremented after it
updateTimestampNoTick(c, receivedTimestamp) == Max(c, receivedTimestamp)

\* the counter after updateTimestamp(receivedTimestamp), which is also what it returns
updateTimestamp(c, receivedTimestamp) == Max(c, receivedTimestamp) + 1

\* what getCurrentTimestamp returns; the counter is left as it is
getCurrentTimestamp(c) == c

----------------------------------------------------------------------------
(* utils/crdtEngine.ts *)

createCharacterId(clientId, sequenceNumber) == <<clientId, sequenceNumber>>

\* Array.prototype.findIndex(c => c.id === id), 1-based; 0 stands for -1
findIndex(characters, id) ==
    IF \E i \in 1..Len(characters) : characters[i].id = id
    THEN CHOOSE i \in 1..Len(characters) :
            /\ characters[i].id = id
            /\ \A j \in 1..(i - 1) : characters[j].id # id
    ELSE 0

\* (mutant) splice(afterIndex, 0, ...): the new character lands before its anchor
insertCharacterBefore(characters, afterId, char, charId, author, timestamp) ==
    LET newCharacter == [id |-> charId, char |-> char, author |-> author,
                         timestamp |-> timestamp]
        afterIndex == findIndex(characters, afterId)
    IN  IF afterId = Null THEN <<newCharacter>> \o characters
        ELSE IF afterIndex = 0 THEN Append(characters, newCharacter)
        ELSE SubSeq(characters, 1, afterIndex - 1) \o <<newCharacter>>
                \o SubSeq(characters, afterIndex, Len(characters))

\* (mutant) an Insert whose anchor is not in the document is dropped, not appended
insertCharacterDropOrphan(characters, afterId, char, charId, author, timestamp) ==
    LET newCharacter == [id |-> charId, char |-> char, author |-> author,
                         timestamp |-> timestamp]
        afterIndex == findIndex(characters, afterId)
    IN  IF afterId = Null THEN <<newCharacter>> \o characters
        ELSE IF afterIndex = 0 THEN characters
        ELSE SubSeq(characters, 1, afterIndex) \o <<newCharacter>>
                \o SubSeq(characters, afterIndex + 1, Len(characters))

insertCharacter(characters, afterId, char, charId, author, timestamp) ==
    LET newCharacter == [id |-> charId, char |-> char, author |-> author,
                         timestamp |-> timestamp]
        afterIndex == findIndex(characters, afterId)
    IN  IF afterId = Null THEN <<newCharacter>> \o characters
        ELSE IF afterIndex = 0 THEN Append(characters, newCharacter)
        ELSE SubSeq(characters, 1, afterIndex) \o <<newCharacter>>
                \o SubSeq(characters, afterIndex + 1, Len(characters))

\* (mutant) characters.splice(findIndex(...), 1): an absent id gives index -1, and
\* splice(-1, 1) removes the last character
deleteCharacterSplice(characters, charId) ==
    LET at == IF findIndex(characters, charId) = 0 THEN Len(characters)
              ELSE findIndex(characters, charId)
    IN  SubSeq(characters, 1, at - 1) \o SubSeq(characters, at + 1, Len(characters))

\* (mutant) characters.slice(0, index): the characters after the deleted one go too
deleteCharacterTruncate(characters, charId) ==
    IF findIndex(characters, charId) = 0 THEN characters
    ELSE SubSeq(characters, 1, findIndex(characters, charId) - 1)

deleteCharacter(characters, charId) ==
    SelectSeq(characters, LAMBDA c : c.id # charId)

\* the document applyOperation returns (its clock side effect is updateTimestamp)
applyOperation(characters, operation) ==
    IF operation.type = "insert"
    THEN insertCharacter(characters, operation.afterId, operation.char,
                         operation.charId, operation.author, operation.timestamp)
    ELSE IF operation.type = "delete"
    THEN deleteCharacter(characters, operation.charId)
    ELSE characters

\* characters.map(c => c.char).join(''): a text is the sequence of its one-unit strings,
\* and a character whose char is '' adds nothing to it
documentToText(characters) ==
    LET units == [i \in 1..Len(characters) |-> characters[i].char]
    IN  SelectSeq(units, LAMBDA u : u # "")

\* characters.forEach of groupByAuthor from position index (0-based) on: st.segments
\* are the pushed segments, st.currentSegment holds the open one (empty: null)
RECURSIVE GroupLoop(_, _, _)
GroupLoop(characters, index, st) ==
    IF index >= Len(characters) THEN st
    ELSE LET char == characters[index + 1]
             currentSegment == st.currentSegment
             text == IF char.char = "" THEN <<>> ELSE <<char.char>>
         IN  GroupLoop(characters, index + 1,
                IF currentSegment = <<>> \/ currentSegment[1].author # char.author
                THEN [segments |-> st.segments \o currentSegment,
                      currentSegment |-> <<[text |-> text, author |-> char.author,
                                           startIndex |-> index, endIndex |-> index]>>]
                ELSE [segments |-> st.segments,
                      currentSegment |-> <<[currentSegment[1] EXCEPT
                                                !.text = @ \o text,
                                                !.endIndex = index]>>])

\* groupByAuthor without the push of the last open segment
groupByAuthorDropLast(characters) ==
    GroupLoop(characters, 0, [segments |-> <<>>, currentSegment |-> <<>>]).segments

\* groupByAuthor(characters): the segments, the last open one pushed at the end
groupByAuthor(characters) ==
    IF Len(characters) = 0 THEN <<>>
    ELSE LET st == GroupLoop(characters, 0, [segments |-> <<>>, currentSegment |-> <<>>])
         IN  st.segments \o st.currentSegment

createEmptyDocument == <<>>

\* the ids of the live characters
Ids(characters) == {characters[i].id : i \in 1..Len(characters)}

\* id.localeCompare: uid first, then the sequence digits (sequence numbers below 10)
ClientRank(clientId) == IF clientId = "u1" THEN 1 ELSE IF clientId = "u2" THEN 2 ELSE 0

IdBefore(a, b) ==
    \/ ClientRank(a[1]) < ClientRank(b[1])
    \/ ClientRank(a[1]) = ClientRank(b[1]) /\ a[2] < b[2]

\* the comparator of sortCharacters is negative
SortsBefore(a, b) ==
    \/ a.timestamp < b.timestamp
    \/ a.timestamp = b.timestamp /\ IdBefore(a.id, b.id)

\* [...characters].sort(by timestamp, then id); the sort is stable
sortCharacters(characters) ==
    LET n == Len(characters)
        pos(i) == 1 + Cardinality({j \in 1..n :
                        \/ SortsBefore(characters[j], characters[i])
                        \/ /\ ~SortsBefore(characters[i], characters[j])
                           /\ j < i})
    IN  [k \in 1..n |-> characters[CHOOSE i \in 1..n : pos(i) = k]]

\* position is the 0-based text position
findCharacterIdAtPosition(characters, position) ==
    IF position = 0 THEN Null
    ELSE IF position >= Len(characters)
    THEN (IF Len(characters) > 0 THEN characters[Len(characters)].id ELSE Null)
    ELSE characters[position].id

\* Math.max(...existingIds) + 1 over the author's characters, 0 when there are none
NextSequenceNumber(characters, author) ==
    LET own == {i \in 1..Len(characters) : characters[i].author = author}
    IN  IF own = {} THEN 0
        ELSE 1 + (CHOOSE m \in {characters[i].id[2] : i \in own} :
                    \A i \in own : characters[i].id[2] <= m)

\* the while loop of diffTextChanges; oldIndex and newIndex are 0-based,
\* st = [operations, counter, sequenceNumber]
RECURSIVE DiffLoop(_, _, _, _, _, _, _, _)
DiffLoop(oldDocument, oldText, newText, author, clientId, oldIndex, newIndex, st) ==
    IF ~(oldIndex < Len(oldText) \/ newIndex < Len(newText)) THEN st
    ELSE IF /\ oldIndex < Len(oldText) /\ newIndex < Len(newText)
            /\ oldText[oldIndex + 1] = newText[newIndex + 1]
    THEN DiffLoop(oldDocument, oldText, newText, author, clientId,
                  oldIndex + 1, newIndex + 1, st)
    ELSE IF oldIndex < Len(oldText)
    THEN LET sorted == sortCharacters(oldDocument)
             op == [type |-> "delete", charId |-> sorted[oldIndex + 1].id,
                    timestamp |-> getNextTimestamp(st.counter)]
         IN  DiffLoop(oldDocument, oldText, newText, author, clientId,
                      oldIndex + 1, newIndex,
                      IF oldIndex < Len(sorted)
                      THEN [st EXCEPT !.operations = Append(@, op),
                                      !.counter = getNextTimestamp(@)]
                      ELSE st)
    ELSE LET afterId == IF oldIndex > 0
                        THEN findCharacterIdAtPosition(oldDocument, oldIndex)
                        ELSE Null
             op == [type |-> "insert", afterId |-> afterId,
                    char |-> newText[newIndex + 1],
                    charId |-> createCharacterId(clientId, st.sequenceNumber),
                    author |-> author,
                    timestamp |-> getNextTimestamp(st.counter)]
         IN  DiffLoop(oldDocument, oldText, newText, author, clientId,
                      oldIndex, newIndex + 1,
                      [operations |-> Append(st.operations, op),
                       counter |-> getNextTimestamp(st.counter),
                       sequenceNumber |-> st.sequenceNumber + 1])

\* the operations diffTextChanges returns, with the clock it leaves behind
diffTextChanges(oldDocument, newText, author, clientId, clock) ==
    DiffLoop(oldDocument, documentToText(oldDocument), newText, author, clientId, 0, 0,
             [operations |-> <<>>, counter |-> clock,
              sequenceNumber |-> NextSequenceNumber(oldDocument, author)])

----------------------------------------------------------------------------
(* components/OnlineGame.tsx: PairChat.handleInput *)

MAX_CHARACTERS == 5000

\* while (prefixLen < old.length && prefixLen < new.length && old[prefixLen] === new[prefixLen])
RECURSIVE PrefixLoop(_, _, _)
PrefixLoop(oldText, newText, prefixLen) ==
    IF /\ prefixLen < Len(oldText) /\ prefixLen < Len(newText)
       /\ oldText[prefixLen + 1] = newText[prefixLen + 1]
    THEN PrefixLoop(oldText, newText, prefixLen + 1)
    ELSE prefixLen

\* while (suffixLen < old.length - prefixLen && suffixLen < new.length - prefixLen && ...)
RECURSIVE SuffixLoop(_, _, _, _)
SuffixLoop(oldText, newText, prefixLen, suffixLen) ==
    IF /\ suffixLen < Len(oldText) - prefixLen
       /\ suffixLen < Len(newText) - prefixLen
       /\ oldText[Len(oldText) - suffixLen] = newText[Len(newText) - suffixLen]
    THEN SuffixLoop(oldText, newText, prefixLen, suffixLen + 1)
    ELSE suffixLen

\* (mutant) the delete loop running upwards: first character of the region first
RECURSIVE DeleteLoopAscending(_, _, _, _)
DeleteLoopAscending(chars, i, oldMiddleStart, st) ==
    IF i < oldMiddleStart THEN st
    ELSE LET before == DeleteLoopAscending(chars, i - 1, oldMiddleStart, st)
         IN  IF i < Len(chars)
             THEN [before EXCEPT
                    !.operations = Append(@, [type |-> "delete", charId |-> chars[i + 1].id,
                                              timestamp |-> getNextTimestamp(before.counter)]),
                    !.counter = getNextTimestamp(@)]
             ELSE before

\* for (let i = oldMiddleEnd - 1; i >= oldMiddleStart; i--) if (i < chars.length) push delete
RECURSIVE DeleteLoop(_, _, _, _)
DeleteLoop(chars, i, oldMiddleStart, st) ==
    IF i < oldMiddleStart THEN st
    ELSE DeleteLoop(chars, i - 1, oldMiddleStart,
            IF i < Len(chars)
            THEN [st EXCEPT !.operations =
                                Append(@, [type |-> "delete", charId |-> chars[i + 1].id,
                                           timestamp |-> getNextTimestamp(st.counter)]),
                            !.counter = getNextTimestamp(@)]
            ELSE st)

\* (mutant) every Insert of the batch anchored at the last prefix character, none
\* chained to the Insert before it
RECURSIVE InsertLoopUnchained(_, _, _, _, _, _, _)
InsertLoopUnchained(chars, newText, currentUid, prefixLen, i, newMiddleEnd, st) ==
    IF ~(i < newMiddleEnd) THEN st
    ELSE LET afterId == IF prefixLen > 0 /\ prefixLen - 1 < Len(chars)
                        THEN chars[prefixLen].id ELSE Null
             op == [type |-> "insert", afterId |-> afterId, char |-> newText[i + 1],
                    charId |-> createCharacterId(currentUid, st.sequenceNumber),
                    author |-> currentUid,
                    timestamp |-> getNextTimestamp(st.counter)]
         IN  InsertLoopUnchained(chars, newText, currentUid, prefixLen, i + 1,
                                 newMiddleEnd,
                                 [operations |-> Append(st.operations, op),
                                  counter |-> getNextTimestamp(st.counter),
                                  sequenceNumber |-> st.sequenceNumber + 1])

\* for (let i = newMiddleStart; i < newMiddleEnd; i++) push insert
RECURSIVE InsertLoop(_, _, _, _, _, _, _)
InsertLoop(chars, newText, currentUid, prefixLen, i, newMiddleEnd, st) ==
    IF ~(i < newMiddleEnd) THEN st
    ELSE LET insertAfterIndex == prefixLen - 1 + (i - prefixLen)
             prevOp == st.operations[Len(st.operations)]
             afterId ==
                IF insertAfterIndex >= 0
                THEN IF i = prefixLen
                     THEN (IF prefixLen > 0 /\ prefixLen - 1 < Len(chars)
                           THEN chars[prefixLen].id ELSE Null)
                     ELSE (IF Len(st.operations) > 0 /\ prevOp.type = "insert"
                           THEN prevOp.charId ELSE Null)
                ELSE Null
             op == [type |-> "insert", afterId |-> afterId, char |-> newText[i + 1],
                    charId |-> createCharacterId(currentUid, st.sequenceNumber),
                    author |-> currentUid,
                    timestamp |-> getNextTimestamp(st.counter)]
         IN  InsertLoop(chars, newText, currentUid, prefixLen, i + 1, newMiddleEnd,
                        [operations |-> Append(st.operations, op),
                         counter |-> getNextTimestamp(st.counter),
                         sequenceNumber |-> st.sequenceNumber + 1])

\* the batch handleInput builds from the closure's document, lastKnownTextRef and the
\* text of the contentEditable; also the clock and sequenceNumberRef it leaves behind
handleInput(chars, oldText, newText, currentUid, sequenceNumber, clock) ==
    LET prefixLen == PrefixLoop(oldText, newText, 0)
        suffixLen == SuffixLoop(oldText, newText, prefixLen, 0)
        oldMiddleStart == prefixLen
        oldMiddleEnd == Len(oldText) - suffixLen
        newMiddleEnd == Len(newText) - suffixLen
        deleted == DeleteLoop(chars, oldMiddleEnd - 1, oldMiddleStart,
                              [operations |-> <<>>, counter |-> clock,
                               sequenceNumber |-> sequenceNumber])
    IN  InsertLoop(chars, newText, currentUid, prefixLen, prefixLen, newMiddleEnd, deleted)

----------------------------------------------------------------------------
(* hooks/usePairChatCRDT.ts *)

\* `${type}:${charId}`
OpKey(type, charId) == <<type, charId>>

\* the document sendOperations hands to addDoc (createdAt left out)
ToFirestore(operation) ==
    IF operation.type = "insert"
    THEN [type |-> operation.type, charId |-> operation.charId,
          timestamp |-> operation.timestamp, afterId |-> operation.afterId,
          char |-> operation.char, author |-> operation.author]
    ELSE [type |-> operation.type, charId |-> operation.charId,
          timestamp |-> operation.timestamp, afterId |-> Null, author |-> ""]

\* the listener's conversion of a stored document to a CRDTOperation
FromFirestore(data) ==
    IF data.type = "insert"
    THEN [type |-> "insert",
          afterId |-> IF "afterId" \in DOMAIN data THEN data.afterId ELSE Null,
          char |-> IF "char" \in DOMAIN data THEN data.char ELSE "",
          charId |-> data.charId, author |-> data.author, timestamp |-> data.timestamp]
    ELSE [type |-> "delete", charId |-> data.charId, timestamp |-> data.timestamp]

\* (mutant) the listener without its "Skip if already processed" return
ListenerStepNoSkip(st, data) ==
    [document |-> applyOperation(st.document, FromFirestore(data)),
     processedOps |-> st.processedOps \cup {OpKey(data.type, data.charId)},
     counter |-> updateTimestamp(st.counter, FromFirestore(data).timestamp)]

\* one docChange of the onSnapshot listener on st = [document, processedOps, counter]
ListenerStep(st, data) ==
    LET opKey == OpKey(data.type, data.charId)
        operation == FromFirestore(data)
    IN  IF opKey \in st.processedOps THEN st
        ELSE [document |-> applyOperation(st.document, operation),
              processedOps |-> st.processedOps \cup {opKey},
              counter |-> updateTimestamp(st.counter, operation.timestamp)]

\* snapshot.docChanges().forEach over the stored documents at positions `order`
RECURSIVE ListenerReplay(_, _, _)
ListenerReplay(st, stored, order) ==
    IF order = <<>> THEN st
    ELSE ListenerReplay(ListenerStep(st, stored[Head(order)]), stored, Tail(order))

\* operations.forEach(op => newDoc = applyOperation(newDoc, op)) of sendOperations
RECURSIVE ApplyAll(_, _)
ApplyAll(characters, operations) ==
    IF operations = <<>> THEN characters
    ELSE ApplyAll(applyOperation(characters, Head(operations)), Tail(operations))

\* the clock after applyOperation has run over `operations`
RECURSIVE ClockAfter(_, _)
ClockAfter(c, operations) ==
    IF operations = <<>> THEN c
    ELSE ClockAfter(updateTimestamp(c, Head(operations).timestamp), Tail(operations))

\* (mutant) sendOperations without "Mark all as processed before sending"
sendOperationsUnmarked(st, operations) ==
    [document |-> ApplyAll(st.document, operations),
     processedOps |-> st.processedOps,
     counter |-> ClockAfter(st.counter, operations)]

\* sendOperations that marks only the first operation of the batch as processed
sendOperationsMarkFirst(st, operations) ==
    [document |-> ApplyAll(st.document, operations),
     processedOps |-> st.processedOps
                        \cup {OpKey(operations[k].type, operations[k].charId) :
                                k \in 1..Len(operations) \cap {1}},
     counter |-> ClockAfter(st.counter, operations)]

\* sendOperations on st = [document, processedOps, counter]: keys marked, batch applied
sendOperations(st, operations) ==
    [document |-> ApplyAll(st.document, operations),
     processedOps |-> st.processedOps
                        \cup {OpKey(operations[k].type, operations[k].charId) :
                                k \in 1..Len(operations)},
     counter |-> ClockAfter(st.counter, operations)]

----------------------------------------------------------------------------
(* components/OnlineGame.tsx: the effects PairChat runs when `document` changes *)

\* "Initialize sequence number from existing document"
SequenceEffect(characters, currentUid, sequenceNumber) ==
    Max(sequenceNumber, NextSequenceNumber(characters, currentUid))

\* the render effect reading the characters in timestamp order, not in array order
RenderEffectSorted(characters) == documentToText(sortCharacters(characters))

\* lastKnownTextRef.current = documentToText(document)
RenderEffect(characters) == documentToText(characters)

----------------------------------------------------------------------------
(* types/game.ts and stores/gameStore.ts: the local game *)

ROWS == 6
COLS == 7
WIN_LENGTH == 4

\* Cell = Player | null, and winner: Player | null
NoPiece == "null"

\* checkWin's null result
NoWin == <<>>

\* rows 0 (top) to ROWS - 1 (bottom), columns 0 to COLS - 1
createEmptyBoard == [row \in 0..(ROWS - 1) |-> [col \in 0..(COLS - 1) |-> NoPiece]]

\* the state useGameStore is created with; players and stats are the fields the
\* extended store adds (player names, session statistics)
GameStoreInit ==
    [board |-> createEmptyBoard, currentPlayer |-> "red", winner |-> NoPiece,
     winningCells |-> <<>>, status |-> "playing",
     players |-> [red |-> "", yellow |-> ""],
     stats |-> [red |-> 0, yellow |-> 0, draws |-> 0]]

\* [dRow, dCol]: horizontal, vertical, diagonal down-right, diagonal down-left
Directions == <<<<0, 1>>, <<1, 0>>, <<1, 1>>, <<1, -1>>>>

InBoard(row, col) == row >= 0 /\ row < ROWS /\ col >= 0 /\ col < COLS

\* one of checkWin's inner loops: the number of cells, at steps 1 to WIN_LENGTH - 1
\* from (row, col) along (dRow, dCol), it pushes before it breaks
RunLength(board, row, col, dRow, dCol, player) ==
    LET same(i) == /\ InBoard(row + dRow * i, col + dCol * i)
                   /\ board[row + dRow * i][col + dCol * i] = player
    IN  CHOOSE n \in 0..(WIN_LENGTH - 1) :
            /\ \A i \in 1..n : same(i)
            /\ n = WIN_LENGTH - 1 \/ ~same(n + 1)

\* `cells` of checkWin for one direction: the start, the positive run, the negative run
LineCells(board, row, col, d, player) ==
    LET positive == RunLength(board, row, col, d[1], d[2], player)
        negative == RunLength(board, row, col, -d[1], -d[2], player)
    IN  <<<<row, col>>>>
            \o [i \in 1..positive |-> <<row + d[1] * i, col + d[2] * i>>]
            \o [i \in 1..negative |-> <<row - d[1] * i, col - d[2] * i>>]

\* checkWin over a list of directions: the cells of the first direction with
\* WIN_LENGTH cells or more, or null
checkWinOver(directions, board, row, col, player) ==
    LET winning == {k \in 1..Len(directions) :
                        Len(LineCells(board, row, col, directions[k], player)) >= WIN_LENGTH}
    IN  IF winning = {} THEN NoWin
        ELSE LineCells(board, row, col,
                       directions[CHOOSE k \in winning : \A j \in winning : k <= j], player)

\* (mutant) checkWin without the diagonal down-left direction
checkWinThreeDirections(board, row, col, player) ==
    checkWinOver(SubSeq(Directions, 1, 3), board, row, col, player)

\* checkWin(row, col, player) on the board get() returns
checkWin(board, row, col, player) == checkWinOver(Directions, board, row, col, player)

\* the loop of dropPiece from row ROWS - 1 up to 0: the lowest empty row, or -1
TargetRow(board, col) ==
    IF \E row \in 0..(ROWS - 1) : board[row][col] = NoPiece
    THEN CHOOSE row \in 0..(ROWS - 1) :
            /\ board[row][col] = NoPiece
            /\ \A below \in (row + 1)..(ROWS - 1) : board[below][col] # NoPiece
    ELSE -1

\* (mutant) dropPiece that leaves the turn with the player who moved
dropPieceKeepTurn(state, col) ==
    LET targetRow == TargetRow(state.board, col)
        newBoard == [state.board EXCEPT ![targetRow][col] = state.currentPlayer]
        winningCells == checkWin(state.board, targetRow, col, state.currentPlayer)
    IN  IF state.status # "playing" \/ targetRow = -1
        THEN [state |-> state, returned |-> FALSE]
        ELSE IF winningCells # NoWin
        THEN [state |-> [state EXCEPT !.board = newBoard,
                                      !.winner = state.currentPlayer,
                                      !.winningCells = winningCells,
                                      !.status = "won",
                                      !.stats[state.currentPlayer] = @ + 1],
              returned |-> TRUE]
        ELSE [state |-> [state EXCEPT !.board = newBoard], returned |-> TRUE]

\* dropPiece without the status guard: a finished round still takes pieces
dropPieceAnyStatus(state, col) ==
    LET targetRow == TargetRow(state.board, col)
        newBoard == [state.board EXCEPT ![targetRow][col] = state.currentPlayer]
        winningCells == checkWin(state.board, targetRow, col, state.currentPlayer)
        isDraw == \A c \in 0..(COLS - 1) : newBoard[0][c] # NoPiece
    IN  IF targetRow = -1 THEN [state |-> state, returned |-> FALSE]
        ELSE IF winningCells # NoWin
        THEN [state |-> [state EXCEPT !.board = newBoard,
                                      !.winner = state.currentPlayer,
                                      !.winningCells = winningCells,
                                      !.status = "won",
                                      !.stats[state.currentPlayer] = @ + 1],
              returned |-> TRUE]
        ELSE IF isDraw
        THEN [state |-> [state EXCEPT !.board = newBoard, !.status = "draw",
                                      !.stats.draws = @ + 1],
              returned |-> TRUE]
        ELSE [state |-> [state EXCEPT !.board = newBoard,
                                      !.currentPlayer = IF state.currentPlayer = "red"
                                                        THEN "yellow" ELSE "red"],
              returned |-> TRUE]

\* dropPiece(col) on the store state: the state it sets and the boolean it returns;
\* checkWin runs on the board before the set, with the dropped cell as its start
dropPiece(state, col) ==
    LET targetRow == TargetRow(state.board, col)
        newBoard == [state.board EXCEPT ![targetRow][col] = state.currentPlayer]
        winningCells == checkWin(state.board, targetRow, col, state.currentPlayer)
        isDraw == \A c \in 0..(COLS - 1) : newBoard[0][c] # NoPiece
    IN  IF state.status # "playing" THEN [state |-> state, returned |-> FALSE]
        ELSE IF targetRow = -1 THEN [state |-> state, returned |-> FALSE]
        ELSE IF winningCells # NoWin
        THEN [state |-> [state EXCEPT !.board = newBoard,
                                      !.winner = state.currentPlayer,
                                      !.winningCells = winningCells,
                                      !.status = "won",
                                      !.stats[state.currentPlayer] = @ + 1],
              returned |-> TRUE]
        ELSE IF isDraw
        THEN [state |-> [state EXCEPT !.board = newBoard, !.status = "draw",
                                      !.stats.draws = @ + 1],
              returned |-> TRUE]
        ELSE [state |-> [state EXCEPT !.board = newBoard,
                                      !.currentPlayer = IF state.currentPlayer = "red"
                                                        THEN "yellow" ELSE "red"],
              returned |-> TRUE]

\* setPlayers(redName, yellowName)
setPlayers(state, redName, yellowName) ==
    [state EXCEPT !.players = [red |-> redName, yellow |-> yellowName]]

\* resetGame() that also clears the names and the statistics, as resetSession does
resetGameClearSession(state) == GameStoreInit

\* resetGame(): a new round; the set names only the five fields of the round
resetGame(state) ==
    [state EXCEPT !.board = createEmptyBoard, !.currentPlayer = "red",
                  !.winner = NoPiece, !.winningCells = <<>>, !.status = "playing"]

----------------------------------------------------------------------------
(* hooks/usePairChatCRDT.ts: the error state *)

\* useState<string | null>(null)
NoError == "null"

\* sendOperations whose write is rejected, on st = [document, processedOps, counter,
\* error], with the local state rolled back in the catch block
sendOperationsRollback(st, operations) ==
    [st EXCEPT !.error = "Failed to send operations"]

\* sendOperations whose await Promise.all(promises) is rejected, on st = [document,
\* processedOps, counter, error]: the keys are marked and the batch is applied before
\* the first addDoc, the catch block only sets the error
sendOperationsRejected(st, operations) ==
    LET sent == sendOperations([document |-> st.document,
                                processedOps |-> st.processedOps,
                                counter |-> st.counter], operations)
    IN  [document |-> sent.document, processedOps |-> sent.processedOps,
         counter |-> sent.counter, error |-> "Failed to send operations"]

----------------------------------------------------------------------------
(* hooks/useMatchmaking.ts *)

\* no document under matchmaking/<uid>
NoEntry == [status |-> "none", gameId |-> 0, joinedAt |-> 0]

\* empty collections; isSearching false and gameId null (0) for every player; attempts
\* are the snapshot callbacks that chose an opponent and have not run their
\* transaction yet; now is the server time of the last join
MatchmakingInit ==
    [entries |-> [p \in Players |-> NoEntry],
     games |-> <<>>,
     isSearching |-> [p \in Players |-> FALSE],
     gameId |-> [p \in Players |-> 0],
     attempts |-> [p \in Players |-> <<>>],
     now |-> 0]

\* where('status', '==', 'waiting'), orderBy('joinedAt', 'asc'): the ids in that order
waitingPlayers(entries) ==
    LET waiting == {p \in Players : entries[p].status = "waiting"}
        rank(p) == 1 + Cardinality({q \in waiting :
                                        entries[q].joinedAt < entries[p].joinedAt})
    IN  [k \in 1..Cardinality(waiting) |-> CHOOSE p \in waiting : rank(p) = k]

\* the transaction without the checks that both entries are still waiting
runTransactionUnverified(mm, currentUid, opponent, iAmRed) ==
    LET newGameRef == Len(mm.games) + 1
    IN  IF mm.entries[currentUid] = NoEntry \/ mm.entries[opponent] = NoEntry THEN mm
        ELSE [mm EXCEPT
                !.games = Append(@, [red |-> IF iAmRed THEN currentUid ELSE opponent,
                                     yellow |-> IF iAmRed THEN opponent ELSE currentUid]),
                !.entries[currentUid] = [@ EXCEPT !.status = "matched",
                                                  !.gameId = newGameRef],
                !.entries[opponent] = [@ EXCEPT !.status = "matched",
                                                !.gameId = newGameRef]]

\* runTransaction(db, ...): reads both entries, returns unless both exist and are
\* waiting, else creates the game and sets both entries to matched, atomically
runTransaction(mm, currentUid, opponent, iAmRed) ==
    LET newGameRef == Len(mm.games) + 1
    IN  IF mm.entries[currentUid] = NoEntry \/ mm.entries[opponent] = NoEntry THEN mm
        ELSE IF mm.entries[currentUid].status # "waiting" THEN mm
        ELSE IF mm.entries[opponent].status # "waiting" THEN mm
        ELSE [mm EXCEPT
                !.games = Append(@, [red |-> IF iAmRed THEN currentUid ELSE opponent,
                                     yellow |-> IF iAmRed THEN opponent ELSE currentUid]),
                !.entries[currentUid] = [@ EXCEPT !.status = "matched",
                                                  !.gameId = newGameRef],
                !.entries[opponent] = [@ EXCEPT !.status = "matched",
                                                !.gameId = newGameRef]]

----------------------------------------------------------------------------
(* The replicated system: every client runs PairChat over usePairChatCRDT *)

Texts == SeqsUpTo(Chars, MaxTextLen)

InputTexts == SeqsUpTo(Chars, MaxInputLen)

\* the step taken last: its kind, the replica, the log position, whether the listener
\* skipped, whether that position had reached the replica before, and the text entered
Event(type, r, pos, skipped, again, text) ==
    [type |-> type, replica |-> r, pos |-> pos, skipped |-> skipped, again |-> again,
     text |-> text]

NoEvent == Event("none", "", 0, FALSE, FALSE, <<>>)

Init ==
    /\ document = [r \in Clients |-> createEmptyDocument]
    /\ processedOps = [r \in Clients |-> {}]
    /\ counter = [r \in Clients |-> 0]
    /\ sequenceNumberRef = [r \in Clients |-> 0]
    /\ lastKnownTextRef = [r \in Clients |-> <<>>]
    /\ log = <<>>
    /\ arrivals = [r \in Clients |-> <<>>]
    /\ minted = [r \in Clients |-> <<>>]
    /\ emitted = <<>>
    /\ lastEvent = NoEvent
    /\ game = GameStoreInit
    /\ error = [r \in Clients |-> NoError]
    /\ matchmaking = MatchmakingInit

\* an input event on r's contentEditable leaving newText in it; handleInput, the
\* sendOperations call it ends with, and the effects of the document change
\* (the model stops writing when the collection would exceed `room` operations)
HandleInput(r, newText, room) ==
    LET batch == handleInput(document[r], lastKnownTextRef[r], newText, r,
                             sequenceNumberRef[r], counter[r])
        operations == batch.operations
        sent == sendOperations([document |-> document[r],
                                processedOps |-> processedOps[r],
                                counter |-> batch.counter], operations)
        inserts == SelectSeq(operations, LAMBDA op : op.type = "insert")
    IN  /\ Len(newText) <= MAX_CHARACTERS
        /\ newText # lastKnownTextRef[r]
        /\ Len(operations) > 0
        /\ Len(log) + Len(operations) <= room
        /\ document' = [document EXCEPT ![r] = sent.document]
        /\ processedOps' = [processedOps EXCEPT ![r] = sent.processedOps]
        /\ counter' = [counter EXCEPT ![r] = sent.counter]
        /\ sequenceNumberRef' = [sequenceNumberRef EXCEPT
                ![r] = SequenceEffect(sent.document, r, batch.sequenceNumber)]
        /\ lastKnownTextRef' = [lastKnownTextRef EXCEPT ![r] = RenderEffect(sent.document)]
        /\ log' = log \o [k \in 1..Len(operations) |-> ToFirestore(operations[k])]
        /\ arrivals' = [arrivals EXCEPT
                ![r] = @ \o [k \in 1..Len(operations) |-> Len(log) + k]]
        /\ minted' = [minted EXCEPT
                ![r] = @ \o [k \in 1..Len(inserts) |-> inserts[k].charId]]
        /\ emitted' = operations
        /\ lastEvent' = Event("input", r, Len(log) + 1, FALSE, FALSE, newText)
        /\ UNCHANGED <<game, error, matchmaking>>

\* the listener of r is handed the stored operation at position i (added or modified)
Deliver(r, i) ==
    LET st == [document |-> document[r], processedOps |-> processedOps[r],
               counter |-> counter[r]]
        next == ListenerStep(st, log[i])
        skip == OpKey(log[i].type, log[i].charId) \in processedOps[r]
    IN  /\ document' = [document EXCEPT ![r] = next.document]
        /\ processedOps' = [processedOps EXCEPT ![r] = next.processedOps]
        /\ counter' = [counter EXCEPT ![r] = next.counter]
        /\ sequenceNumberRef' = [sequenceNumberRef EXCEPT
                ![r] = IF skip THEN @ ELSE SequenceEffect(next.document, r, @)]
        /\ lastKnownTextRef' = [lastKnownTextRef EXCEPT
                ![r] = IF skip THEN @ ELSE RenderEffect(next.document)]
        /\ arrivals' = [arrivals EXCEPT
                ![r] = IF i \in Range(@) THEN @ ELSE Append(@, i)]
        /\ lastEvent' = Event("deliver", r, i, skip, i \in Range(arrivals[r]), <<>>)
        /\ UNCHANGED <<log, minted, emitted, game, error, matchmaking>>

\* orderBy('timestamp', 'asc'): the stored positions by ascending timestamp
TimestampOrders(stored) ==
    {o \in [1..Len(stored) -> 1..Len(stored)] :
        /\ \A i, j \in 1..Len(stored) : i # j => o[i] # o[j]
        /\ \A i, j \in 1..Len(stored) :
              i < j => stored[o[i]].timestamp <= stored[o[j]].timestamp}

\* r reloads the page: fresh component state and clock, then the first snapshot
\* replays the whole collection in query order before the text field is shown
Restart(r) ==
    /\ Len(log) > 0
    /\ \E order \in TimestampOrders(log) :
         LET next == ListenerReplay([document |-> createEmptyDocument,
                                     processedOps |-> {}, counter |-> 0], log, order)
         IN  /\ document' = [document EXCEPT ![r] = next.document]
             /\ processedOps' = [processedOps EXCEPT ![r] = next.processedOps]
             /\ counter' = [counter EXCEPT ![r] = next.counter]
             /\ sequenceNumberRef' = [sequenceNumberRef EXCEPT
                    ![r] = SequenceEffect(next.document, r, 0)]
             /\ lastKnownTextRef' = [lastKnownTextRef EXCEPT
                    ![r] = RenderEffect(next.document)]
             /\ arrivals' = [arrivals EXCEPT ![r] = order]
    /\ lastEvent' = Event("restart", r, 0, FALSE, FALSE, <<>>)
    /\ UNCHANGED <<log, minted, emitted, game, error, matchmaking>>

Next ==
    \/ \E r \in Clients, newText \in InputTexts : HandleInput(r, newText, MaxLog)
    \/ \E r \in Clients, i \in 1..Len(log) : Deliver(r, i)
    \/ \E r \in Clients : Restart(r)

Spec == Init /\ [][Next]_vars

----------------------------------------------------------------------------
(* Documents and operation sets the engine's functions are exercised on *)

IdUniverse == {<<"u1", 0>>, <<"u1", 1>>, <<"u2", 0>>}

\* characters as insertCharacter builds them from an Insert minted by handleInput:
\* the id carries its author's uid
CharactersOver(ids, stamps) ==
    {c \in [id : ids, char : Chars, author : Clients, timestamp : stamps] :
        c.author = c.id[1]}

\* documents of at most n characters with pairwise distinct ids
DocsOver(ids, stamps, n) ==
    {d \in SeqsUpTo(CharactersOver(ids, stamps), n) :
        \A i, j \in 1..Len(d) : i # j => d[i].id # d[j].id}

MaxTimestamp(characters) ==
    IF characters = <<>> THEN 0
    ELSE CHOOSE m \in {characters[i].timestamp : i \in 1..Len(characters)} :
            \A i \in 1..Len(characters) : characters[i].timestamp <= m

\* stored Inserts and Deletes over IdUniverse
InsertUniverse ==
    {ToFirestore([type |-> "insert", afterId |-> a, char |-> "a", charId |-> id,
                  author |-> id[1], timestamp |-> 1]) :
        a \in (IdUniverse \cup {Null}), id \in IdUniverse}

DeleteUniverse ==
    {ToFirestore([type |-> "delete", charId |-> id, timestamp |-> 1]) : id \in IdUniverse}

\* what an operation needs to have been applied before it: the Insert of its anchor,
\* or of the character it deletes
DependsOn(data, other) ==
    /\ other.type = "insert"
    /\ \/ data.type = "insert" /\ data.afterId = other.charId
       \/ data.type = "delete" /\ data.charId = other.charId

\* the orders of a set of operations in which the editors can have produced them:
\* every id inserted once, every anchor and every deleted id inserted before its use
CausalOrders(S) ==
    {o \in [1..Cardinality(S) -> S] :
        /\ \A i, j \in 1..Cardinality(S) : i # j => o[i] # o[j]
        /\ \A i, j \in 1..Cardinality(S) :
              (i # j /\ o[i].type = "insert" /\ o[j].type = "insert")
                => o[i].charId # o[j].charId
        /\ \A i \in 1..Cardinality(S) :
              \/ o[i].type = "insert" /\ o[i].afterId = Null
              \/ \E j \in 1..(i - 1) : DependsOn(o[i], o[j])}

OperationSets ==
    {S \in SUBSET (InsertUniverse \cup DeleteUniverse) :
        Cardinality(S) <= MaxOps /\ CausalOrders(S) # {}}

\* both replicas hold `characters`, the collection holds `stored`
EngineInit(characters, stored) ==
    /\ document = [r \in Clients |-> characters]
    /\ processedOps = [r \in Clients |-> {}]
    /\ counter = [r \in Clients |-> MaxTimestamp(characters) + 1]
    /\ sequenceNumberRef = [r \in Clients |-> SequenceEffect(characters, r, 0)]
    /\ lastKnownTextRef = [r \in Clients |-> RenderEffect(characters)]
    /\ log = stored
    /\ arrivals = [r \in Clients |-> <<>>]
    /\ minted = [r \in Clients |-> <<>>]
    /\ emitted = <<>>
    /\ lastEvent = NoEvent
    /\ game = GameStoreInit
    /\ error = [r \in Clients |-> NoError]
    /\ matchmaking = MatchmakingInit

\* replica r applies the stored operation at position i with applyOperation
ApplyStored(r, i, kind) ==
    LET operation == FromFirestore(log[i])
    IN  /\ document' = [document EXCEPT ![r] = applyOperation(@, operation)]
        /\ counter' = [counter EXCEPT ![r] = updateTimestamp(@, operation.timestamp)]
        /\ sequenceNumberRef' = [sequenceNumberRef EXCEPT
                ![r] = SequenceEffect(document'[r], r, @)]
        /\ lastKnownTextRef' = [lastKnownTextRef EXCEPT ![r] = RenderEffect(document'[r])]
        /\ arrivals' = [arrivals EXCEPT
                ![r] = IF i \in Range(@) THEN @ ELSE Append(@, i)]
        /\ lastEvent' = Event(kind, r, i, FALSE, i \in Range(arrivals[r]), <<>>)
        /\ UNCHANGED <<processedOps, log, minted, emitted, game, error, matchmaking>>

\* each operation of the set once, in any order
Apply(r, i) == i \notin Range(arrivals[r]) /\ ApplyStored(r, i, "apply")

\* a Delete applied before is applied again
ApplyAgain(r, i) ==
    /\ i \in Range(arrivals[r])
    /\ log[i].type = "delete"
    /\ counter[r] < MaxClock
    /\ ApplyStored(r, i, "again")

\* Permutations: two replicas apply one set of operations to the empty document
InitPerm ==
    \E S \in OperationSets :
        EngineInit(createEmptyDocument, CHOOSE o \in CausalOrders(S) : TRUE)

NextPerm == \E r \in Clients, i \in 1..Len(log) : Apply(r, i)

SpecPerm == InitPerm /\ [][NextPerm]_vars

\* Deletes: two replicas apply Deletes, repeatedly and in any order, to one document
InitDel ==
    \E d \in DocsOver(IdUniverse, {1}, MaxDocLen) :
        EngineInit(d, CHOOSE o \in [1..Cardinality(DeleteUniverse) -> DeleteUniverse] :
                        Range(o) = DeleteUniverse)

NextDel ==
    \/ \E r \in Clients, i \in 1..Len(log) : counter[r] < MaxClock /\ Apply(r, i)
    \/ \E r \in Clients, i \in 1..Len(log) : ApplyAgain(r, i)

SpecDel == InitDel /\ [][NextDel]_vars

\* Scenario: document 'ab' (A1, A2 by u1); u2 deletes A2 and inserts 'c' after A1
\* while u1 inserts 'd' after A1
A1 == createCharacterId("u1", 0)

A2 == createCharacterId("u1", 1)

ScenarioDocument ==
    <<[id |-> A1, char |-> "a", author |-> "u1", timestamp |-> 1],
      [id |-> A2, char |-> "b", author |-> "u1", timestamp |-> 2]>>

ScenarioOperations ==
    <<ToFirestore([type |-> "delete", charId |-> A2, timestamp |-> 4]),
      ToFirestore([type |-> "insert", afterId |-> A1, char |-> "c",
                   charId |-> createCharacterId("u2", 0), author |-> "u2",
                   timestamp |-> 5]),
      ToFirestore([type |-> "insert", afterId |-> A1, char |-> "d",
                   charId |-> createCharacterId("u1", 2), author |-> "u1",
                   timestamp |-> 4])>>

InitScenario == EngineInit(ScenarioDocument, ScenarioOperations)

SpecScenario == InitScenario /\ [][NextPerm]_vars

\* Differs: one edit of a document by handleInput, or by diffTextChanges
DiffTextChanges(r, newText) ==
    LET batch == diffTextChanges(document[r], newText, r, r, counter[r])
        operations == batch.operations
    IN  /\ document' = [document EXCEPT ![r] = ApplyAll(@, operations)]
        /\ counter' = [counter EXCEPT ![r] = ClockAfter(batch.counter, operations)]
        /\ sequenceNumberRef' = [sequenceNumberRef EXCEPT
                ![r] = SequenceEffect(document'[r], r, @)]
        /\ lastKnownTextRef' = [lastKnownTextRef EXCEPT ![r] = RenderEffect(document'[r])]
        /\ log' = log \o [k \in 1..Len(operations) |-> ToFirestore(operations[k])]
        /\ arrivals' = [arrivals EXCEPT
                ![r] = @ \o [k \in 1..Len(operations) |-> Len(log) + k]]
        /\ emitted' = operations
        /\ lastEvent' = Event("diff", r, Len(log) + 1, FALSE, FALSE, newText)
        /\ UNCHANGED <<processedOps, minted, game, error, matchmaking>>

InitDiff ==
    \E d \in DocsOver(IdUniverse, {1, 2}, MaxDocLen) : EngineInit(d, <<>>)

NextDiff ==
    \/ \E r \in Clients, newText \in Texts :
            lastEvent = NoEvent /\ HandleInput(r, newText, MaxDocLen + MaxTextLen)
    \/ \E r \in Clients, newText \in Texts :
            lastEvent = NoEvent /\ DiffTextChanges(r, newText)

SpecDiff == InitDiff /\ [][NextDiff]_vars

----------------------------------------------------------------------------
(* Convergence of applyOperation over permutations *)

Complete(r) == Range(arrivals[r]) = 1..Len(log)

NoSharedAnchor ==
    \A i, j \in 1..Len(log) :
        (i # j /\ log[i].type = "insert" /\ log[j].type = "insert")
            => log[i].afterId # log[j].afterId

\* C1: a set of operations in which no two Inserts share an afterId, applied in two
\* orders with applyOperation from the empty document, gives identical documents.
C1_PermutationsConverge ==
    (NoSharedAnchor /\ \A r \in Clients : Complete(r))
        => document["u1"] = document["u2"]

\* C2: two replicas that have applied the same set of operations, in any arrival
\* orders, hold the same set of live character ids.
C2_SameLiveIds ==
    Range(arrivals["u1"]) = Range(arrivals["u2"])
        => Ids(document["u1"]) = Ids(document["u2"])

\* C5: a Delete applied twice or more, in any order relative to other Deletes, gives
\* the document that applying it once gives: replicas that started from one document
\* and applied the same set of Deletes hold the same document.
C5_DeleteIdempotent ==
    Range(arrivals["u1"]) = Range(arrivals["u2"])
        => document["u1"] = document["u2"]

\* C5 witness: u1 has just applied again a Delete of a character of the document
\* (u2, which has applied nothing, still holds it), after another Delete.
C5_Witness ==
    /\ lastEvent.type = "again" /\ lastEvent.replica = "u1"
    /\ arrivals["u2"] = <<>>
    /\ log[lastEvent.pos].charId \in Ids(document["u2"])
    /\ Len(arrivals["u1"]) >= 2
    /\ document["u1"] # <<>>

\* C10: from 'ab', every replica that has applied Delete(A2), Insert('c' after A1) and
\* Insert('d' after A1), in any arrival order, holds exactly A1 = 'a', the 'd' insert
\* and the 'c' insert, with A2 absent and 'a' at position 0.
C10_Scenario ==
    \A r \in Clients :
        Complete(r) =>
            /\ Ids(document[r]) = {A1, createCharacterId("u1", 2), createCharacterId("u2", 0)}
            /\ Len(document[r]) = 3
            /\ document[r][1].id = A1 /\ document[r][1].char = "a"
            /\ {document[r][2].char, document[r][3].char} = {"c", "d"}

\* C10 witness: both replicas have applied all three operations, the Delete first at
\* one and last at the other, and ended with 'd' and 'c' in different orders.
C10_Witness ==
    /\ \A r \in Clients : Complete(r)
    /\ arrivals["u1"][1] = 1 /\ arrivals["u2"][3] = 1
    /\ documentToText(document["u1"]) = <<"a", "c", "d">>
    /\ documentToText(document["u2"]) = <<"a", "d", "c">>

----------------------------------------------------------------------------
(* Round trips of the differs *)

\* C3: when the document renders the old text handleInput diffs against, applying the
\* operations it emits, in emission order, gives a document that renders the new text.
C3_HandleInputRoundTrip ==
    lastEvent.type = "input"
        => documentToText(document[lastEvent.replica]) = lastEvent.text

\* C3 witness: an edit that replaced the middle of a document: at least one Delete and
\* two chained Inserts between a kept prefix and nothing else.
C3_Witness ==
    /\ lastEvent.type = "input"
    /\ \E k \in 1..Len(emitted) : emitted[k].type = "delete"
    /\ \E k \in 2..Len(emitted) :
            /\ emitted[k].type = "insert" /\ emitted[k - 1].type = "insert"
            /\ emitted[k].afterId = emitted[k - 1].charId
    /\ \E k \in 1..Len(emitted) :
            /\ emitted[k].type = "insert"
            /\ emitted[k].afterId \in Ids(document[lastEvent.replica])
            /\ emitted[k].afterId \notin {emitted[j].charId : j \in 1..Len(emitted)}

\* C4: applying the operations diffTextChanges returns for a document and a new text,
\* in order, gives a document that renders the new text.
C4_DiffTextChangesRoundTrip ==
    lastEvent.type = "diff"
        => documentToText(document[lastEvent.replica]) = lastEvent.text

----------------------------------------------------------------------------
(* The replicated system: deduplication, ids, loss *)

\* C6: when the transport delivers an operation to a replica again, the listener skips
\* it by key and the replica's document stays the one obtained from applying the
\* batch once.
C6_ResendIdempotent ==
    [][(lastEvent'.type = "deliver" /\ lastEvent'.again)
            => document'[lastEvent'.replica] = document[lastEvent'.replica]]_vars

\* C6 witness: another author's Insert has just been delivered a second time to a
\* replica that holds the character it had applied on the first delivery.
C6_Witness ==
    /\ lastEvent.type = "deliver" /\ lastEvent.again
    /\ log[lastEvent.pos].type = "insert"
    /\ log[lastEvent.pos].author # lastEvent.replica
    /\ log[lastEvent.pos].charId \in Ids(document[lastEvent.replica])

\* C7: in every state a replica reaches through local edits and listener deliveries
\* filtered by the processed-key set, no two characters of its document share an id.
C7_UniqueIds ==
    \A r \in Clients : \A i, j \in 1..Len(document[r]) :
        i # j => document[r][i].id # document[r][j].id

\* C7 witness: the listener of the author has just been handed the author's own
\* Insert, whose character the local apply had already put in the document, next to
\* a character of the other author.
C7_Witness ==
    /\ lastEvent.type = "deliver"
    /\ log[lastEvent.pos].type = "insert"
    /\ log[lastEvent.pos].author = lastEvent.replica
    /\ log[lastEvent.pos].charId \in Ids(document[lastEvent.replica])
    /\ \E k \in 1..Len(document[lastEvent.replica]) :
            document[lastEvent.replica][k].author # lastEvent.replica

\* C8: across local edits, deliveries and restarts an author never assigns to a new
\* character an id it has already assigned to an earlier character.
C8_NoIdReuse ==
    \A r \in Clients : \A i, j \in 1..Len(minted[r]) :
        i # j => minted[r][i] # minted[r][j]

\* C9: every Insert of the log that has reached a replica, with no Delete for its id
\* having reached that replica, is held live there: a live character with the
\* Insert's id and value.
C9_NoDataLost ==
    \A r \in Clients : \A i \in Range(arrivals[r]) :
        (/\ log[i].type = "insert"
         /\ ~\E j \in Range(arrivals[r]) :
                log[j].type = "delete" /\ log[j].charId = log[i].charId)
        => \E k \in 1..Len(document[r]) :
                /\ document[r][k].id = log[i].charId
                /\ document[r][k].char = log[i].char

----------------------------------------------------------------------------
(* A Delete and an Insert with a resolved anchor *)

\* the pairs for a document: any Delete, and an Insert of a new id whose afterId is
\* null or the id of a character of the document
PairLogs(characters) ==
    {<<del, ins>> : del \in DeleteUniverse,
                    ins \in {i \in InsertUniverse :
                                /\ i.afterId \in (Ids(characters) \cup {Null})
                                /\ i.charId \notin Ids(characters)}}

\* Pairs: two replicas apply the Delete and the Insert to one document, in either order
InitPair ==
    \E d \in DocsOver(IdUniverse, {1}, MaxDocLen) :
        \E stored \in PairLogs(d) : EngineInit(d, stored)

SpecPair == InitPair /\ [][NextPerm]_vars

\* C11: for a document and a pair of a Delete and an Insert whose afterId is null or
\* the id of a live character, the two orders of application give the same document:
\* the same ids at the same positions (stated here for the pairs whose Delete is not
\* of the inserted id itself).
C11_DeleteInsertCommute ==
    (log[1].charId # log[2].charId /\ \A r \in Clients : Complete(r))
        => /\ Len(document["u1"]) = Len(document["u2"])
           /\ \A k \in 1..Len(document["u1"]) :
                document["u1"][k].id = document["u2"][k].id

----------------------------------------------------------------------------
(* Frame conditions of insertCharacter and deleteCharacter *)

\* C12: applying an Insert gives a document with exactly one more character in which
\* the existing characters keep their relative order; the new character is at index 0
\* when afterId is null, right after its anchor when the anchor is live, and last when
\* the anchor is not in the document (indices here are 1-based).
C12_InsertPlacement ==
    [][(lastEvent'.type = "apply" /\ log[lastEvent'.pos].type = "insert")
        => LET old == document[lastEvent'.replica]
               new == document'[lastEvent'.replica]
               op == log[lastEvent'.pos]
               at == IF op.afterId = Null THEN 1
                     ELSE IF op.afterId \in Ids(old)
                     THEN (CHOOSE p \in 1..Len(old) : old[p].id = op.afterId) + 1
                     ELSE Len(old) + 1
           IN  /\ Len(new) = Len(old) + 1
               /\ new[at].id = op.charId /\ new[at].char = op.char
               /\ \A k \in 1..Len(old) : new[IF k < at THEN k ELSE k + 1] = old[k]]_vars

\* C12 witness: an Insert whose anchor is not in the document has just been applied
\* to a document of at least one character and sits at the last index.
C12_Witness ==
    /\ lastEvent.type = "apply"
    /\ log[lastEvent.pos].type = "insert"
    /\ log[lastEvent.pos].afterId # Null
    /\ log[lastEvent.pos].afterId \notin Ids(document[lastEvent.replica])
    /\ Len(document[lastEvent.replica]) >= 2
    /\ document[lastEvent.replica][Len(document[lastEvent.replica])].id
            = log[lastEvent.pos].charId

----------------------------------------------------------------------------
(* utils/lamportTimestamp.ts on its own: calls on each client's clock *)

\* a call on r's clock: the counter before it, the timestamp received (updateTimestamp
\* only) and the value returned
ClockEvent(type, r, before, received, returned) ==
    [type |-> type, replica |-> r, pos |-> received, skipped |-> FALSE, again |-> FALSE,
     text |-> <<>>, before |-> before, returned |-> returned]

GetNextTimestamp(r) ==
    /\ counter[r] < MaxTick
    /\ counter' = [counter EXCEPT ![r] = getNextTimestamp(@)]
    /\ lastEvent' = ClockEvent("getNextTimestamp", r, counter[r], 0,
                               getNextTimestamp(counter[r]))
    /\ UNCHANGED <<document, processedOps, sequenceNumberRef, lastKnownTextRef, log,
                   arrivals, minted, emitted, game, error, matchmaking>>

UpdateTimestamp(r, receivedTimestamp) ==
    /\ counter[r] < MaxTick
    /\ counter' = [counter EXCEPT ![r] = updateTimestamp(@, receivedTimestamp)]
    /\ lastEvent' = ClockEvent("updateTimestamp", r, counter[r], receivedTimestamp,
                               updateTimestamp(counter[r], receivedTimestamp))
    /\ UNCHANGED <<document, processedOps, sequenceNumberRef, lastKnownTextRef, log,
                   arrivals, minted, emitted, game, error, matchmaking>>

GetCurrentTimestamp(r) ==
    /\ lastEvent' = ClockEvent("getCurrentTimestamp", r, counter[r], 0,
                               getCurrentTimestamp(counter[r]))
    /\ UNCHANGED <<document, processedOps, counter, sequenceNumberRef, lastKnownTextRef,
                   log, arrivals, minted, emitted, game, error, matchmaking>>

NextClock ==
    \/ \E r \in Clients : GetNextTimestamp(r)
    \/ \E r \in Clients, receivedTimestamp \in 0..(MaxTick - 1) :
            UpdateTimestamp(r, receivedTimestamp)
    \/ \E r \in Clients : GetCurrentTimestamp(r)

SpecClock == Init /\ [][NextClock]_vars

\* C14: getNextTimestamp advances the counter by exactly 1 and returns the new value;
\* updateTimestamp(t) sets the counter to max(counter, t) + 1 and returns it (from 5,
\* observe(3) yields 6 and observe(9) yields 10); getCurrentTimestamp returns the
\* counter and does not change it.
C14_ClockArithmetic ==
    [][LET r == lastEvent'.replica
           t == lastEvent'.pos
       IN  /\ lastEvent'.type = "getNextTimestamp"
                => /\ counter'[r] = counter[r] + 1
                   /\ lastEvent'.returned = counter'[r]
           /\ lastEvent'.type = "updateTimestamp"
                => /\ counter'[r] = (IF counter[r] >= t THEN counter[r] ELSE t) + 1
                   /\ lastEvent'.returned = counter'[r]
                   /\ (counter[r] = 5 /\ t = 3) => lastEvent'.returned = 6
                   /\ (counter[r] = 5 /\ t = 9) => lastEvent'.returned = 10
           /\ lastEvent'.type = "getCurrentTimestamp"
                => /\ counter' = counter
                   /\ lastEvent'.returned = counter[r]]_vars

\* C14 witness: updateTimestamp(9) has just been called on a clock whose counter was 5
\* and returned 10.
C14_Witness ==
    /\ lastEvent.type = "updateTimestamp"
    /\ lastEvent.before = 5 /\ lastEvent.pos = 9
    /\ lastEvent.returned = 10 /\ counter[lastEvent.replica] = 10

----------------------------------------------------------------------------
(* The Lamport clock in the replicated system *)

\* the stored operations r's session has generated or applied: what reached it, except
\* a delivery the listener skipped because an earlier arrival had the same key
Observed(r) ==
    {arrivals[r][k] : k \in {n \in 1..Len(arrivals[r]) :
        \A j \in 1..(n - 1) :
            OpKey(log[arrivals[r][j]].type, log[arrivals[r][j]].charId)
                # OpKey(log[arrivals[r][n]].type, log[arrivals[r][n]].charId)}}

ClockAhead == \A r \in Clients : \A i \in Observed(r) : counter[r] >= log[i].timestamp

\* a step of a running session: its counter does not decrease, an operation it applies
\* is covered by the counter, and the operations it generates carry increasing
\* timestamps above the counter before the step (hence above everything ClockAhead
\* covers). A reload ends the session: the new one starts a new clock at 0 and has
\* applied what its replay applied, which ClockAhead covers.
ClockStep ==
    LET r == lastEvent'.replica
    IN  /\ lastEvent'.type \in {"input", "deliver"} => counter'[r] >= counter[r]
        /\ (lastEvent'.type = "deliver" /\ ~lastEvent'.skipped)
                => counter'[r] >= log[lastEvent'.pos].timestamp
        /\ lastEvent'.type = "input"
                => /\ \A k \in 1..Len(emitted') :
                        /\ emitted'[k].timestamp > counter[r]
                        /\ counter'[r] >= emitted'[k].timestamp
                        /\ \A i \in Observed(r) : emitted'[k].timestamp > log[i].timestamp
                   /\ \A j, k \in 1..Len(emitted') :
                        j < k => emitted'[j].timestamp < emitted'[k].timestamp

\* C15: in every reachable state of a replica the Lamport counter is at least the
\* timestamp of every operation the replica has generated or applied, and it never
\* decreases while the session runs, so every operation the replica generates carries
\* a timestamp strictly greater than that of every operation it generated or applied
\* earlier.
C15_ClockAheadOfSeen == []ClockAhead /\ [][ClockStep]_vars

\* C15 witness: u2, which had generated nothing, has just generated its first
\* operation after applying an Insert of u1 stamped 2 or more, and stamped it higher.
C15_Witness ==
    /\ lastEvent.type = "input" /\ lastEvent.replica = "u2"
    /\ Len(minted["u2"]) = 1
    /\ emitted[1].type = "insert"
    /\ \E i \in Observed("u2") :
            /\ log[i].type = "insert" /\ log[i].author = "u1"
            /\ log[i].timestamp >= 2
            /\ emitted[1].timestamp > log[i].timestamp

----------------------------------------------------------------------------
(* Minimality of the differs *)

\* new is old with one contiguous, non-empty substring inserted
IsInsertion(old, new) ==
    /\ Len(new) > Len(old)
    /\ \E p \in 0..Len(old) :
            /\ SubSeq(new, 1, p) = SubSeq(old, 1, p)
            /\ SubSeq(new, p + 1 + (Len(new) - Len(old)), Len(new))
                    = SubSeq(old, p + 1, Len(old))

\* C16: when the new text is the old text with one contiguous substring inserted, the
\* differ (handleInput, and diffTextChanges) emits no Delete and exactly one Insert
\* per inserted character, anchored so that applying them gives the new text.
C16_Minimality ==
    [][(/\ lastEvent'.type \in {"input", "diff"}
        /\ IsInsertion(documentToText(document[lastEvent'.replica]), lastEvent'.text))
        => /\ \A k \in 1..Len(emitted') : emitted'[k].type = "insert"
           /\ Len(emitted') = Len(lastEvent'.text)
                                - Len(documentToText(document[lastEvent'.replica]))
           /\ documentToText(document'[lastEvent'.replica]) = lastEvent'.text]_vars

----------------------------------------------------------------------------
(* Bootstrap of a new session from the stored log *)

\* C17: a replica that starts from the empty document and replays the full stored log
\* in ascending timestamp order obtains the document of the replicas that applied
\* those operations as they were produced and delivered (here: of every replica that
\* every stored operation has reached).
C17_Bootstrap ==
    lastEvent.type = "restart"
        => \A r \in Clients :
                Complete(r) => document[r] = document[lastEvent.replica]

----------------------------------------------------------------------------
(* Malformed stored operations reaching the listener *)

\* a stored Insert without a value, or a stored operation of another type
Malformed(data) ==
    \/ data.type = "insert" /\ "char" \notin DOMAIN data
    \/ data.type \notin {"insert", "delete"}

\* malformed stored operations for a document: Inserts of a new id with no char field,
\* and operations of type 'update' naming any id
MalformedUniverse(characters) ==
    {[type |-> "insert", charId |-> id, timestamp |-> 1, afterId |-> a, author |-> id[1]] :
        a \in (Ids(characters) \cup {Null}), id \in (IdUniverse \ Ids(characters))}
    \cup {[type |-> "update", charId |-> id, timestamp |-> 1, afterId |-> Null,
           author |-> ""] : id \in IdUniverse}

\* Malformed: both replicas hold one document and the collection holds two malformed
\* operations, which the listeners are handed in any order, any number of times
InitMalformed ==
    \E d \in DocsOver(IdUniverse, {1}, MaxDocLen) :
        \E x, y \in MalformedUniverse(d) : x # y /\ EngineInit(d, <<x, y>>)

NextMalformed == \E r \in Clients, i \in 1..Len(log) : Deliver(r, i)

SpecMalformed == InitMalformed /\ [][NextMalformed]_vars

\* C18: a malformed operation is rejected or skipped: when the listener receives an
\* Insert that has no value, or an operation whose type is neither insert nor delete,
\* the replica's document is left unchanged by it.
C18_MalformedSkipped ==
    [][(lastEvent'.type = "deliver" /\ Malformed(log[lastEvent'.pos]))
            => document'[lastEvent'.replica] = document[lastEvent'.replica]]_vars

----------------------------------------------------------------------------
(* The local game: calls on useGameStore *)

\* a call on the store: the column (dropPiece only) and the value returned
GameEvent(type, col, returned) ==
    [type |-> type, replica |-> "", pos |-> col, skipped |-> FALSE, again |-> FALSE,
     text |-> <<>>, returned |-> returned]

PieceCount(board) ==
    Cardinality({cell \in (0..(ROWS - 1)) \X (0..(COLS - 1)) :
                    board[cell[1]][cell[2]] # NoPiece})

\* the rounds the session has finished
Rounds(state) == state.stats.red + state.stats.yellow + state.stats.draws

\* a click on a cell of column col (the model stops a round after MaxMoves pieces
\* unless one piece is left to play, and plays no piece of a new round after MaxRounds
\* finished ones; a click the store rejects is always possible)
DropPiece(col) ==
    /\ \/ game.status # "playing"
       \/ PieceCount(game.board) < MaxMoves /\ Rounds(game) < MaxRounds
       \/ PieceCount(game.board) = ROWS * COLS - 1
    /\ game' = dropPiece(game, col).state
    /\ lastEvent' = GameEvent("dropPiece", col, dropPiece(game, col).returned)
    /\ UNCHANGED <<document, processedOps, counter, sequenceNumberRef, lastKnownTextRef,
                   log, arrivals, minted, emitted, error, matchmaking>>

\* the "next round" button
ResetGame ==
    /\ game.board # createEmptyBoard
    /\ game' = resetGame(game)
    /\ lastEvent' = GameEvent("resetGame", 0, FALSE)
    /\ UNCHANGED <<document, processedOps, counter, sequenceNumberRef, lastKnownTextRef,
                   log, arrivals, minted, emitted, error, matchmaking>>

NextGame ==
    \/ \E col \in 0..MaxCol : DropPiece(col)
    \/ ResetGame

SpecGame == Init /\ [][NextGame]_vars

----------------------------------------------------------------------------
(* The local game: moves and wins *)

OtherPlayer(player) == IF player = "red" THEN "yellow" ELSE "red"

\* C19: red moves first, and dropPiece(col) called while status is 'playing' on a
\* column that is not full places the current player's piece in the lowest empty row
\* of that column, leaves every other cell unchanged and, when the move neither wins
\* nor draws, passes the turn to the other player.
C19_DropPiece ==
    /\ [](game.board = createEmptyBoard
            => game.currentPlayer = "red" /\ game.status = "playing")
    /\ [][(/\ lastEvent'.type = "dropPiece"
           /\ game.status = "playing"
           /\ game.board[0][lastEvent'.pos] = NoPiece)
          => LET col == lastEvent'.pos
                 row == CHOOSE r \in 0..(ROWS - 1) :
                            /\ game.board[r][col] = NoPiece
                            /\ r = ROWS - 1 \/ game.board[r + 1][col] # NoPiece
             IN  /\ lastEvent'.returned
                 /\ game'.board[row][col] = game.currentPlayer
                 /\ \A r \in 0..(ROWS - 1), c \in 0..(COLS - 1) :
                        <<r, c>> # <<row, col>> => game'.board[r][c] = game.board[r][c]
                 /\ game'.status \in {"playing", "won", "draw"}
                 /\ game'.status = "playing"
                        => game'.currentPlayer = OtherPlayer(game.currentPlayer)]_vars

\* C19 witness: red has dropped into an empty column, yellow has just dropped into the
\* same column and sits on top of the red piece, and it is red's turn again.
C19_Witness ==
    /\ lastEvent.type = "dropPiece" /\ lastEvent.returned
    /\ PieceCount(game.board) = 2
    /\ game.board[ROWS - 1][lastEvent.pos] = "red"
    /\ game.board[ROWS - 2][lastEvent.pos] = "yellow"
    /\ game.status = "playing" /\ game.currentPlayer = "red"

\* the four line directions: horizontal, vertical and the two diagonals
Lines == {<<0, 1>>, <<1, 0>>, <<1, 1>>, <<1, -1>>}

\* (row, col) lies on four consecutive cells of one line that all hold player's colour
HasLine(board, row, col, player) ==
    \E d \in Lines, first \in 0..3 :
        \A j \in 0..3 :
            /\ InBoard(row + d[1] * (j - first), col + d[2] * (j - first))
            /\ board[row + d[1] * (j - first)][col + d[2] * (j - first)] = player

\* C20: a move sets status to 'won' with winner equal to the mover exactly when the
\* piece just dropped lies on a line of at least four consecutive pieces of the
\* mover's colour, horizontally, vertically or on either diagonal; winningCells then
\* lists distinct cells of that line, the dropped one among them, all holding the
\* winner's colour.
C20_WinDetection ==
    [][(lastEvent'.type = "dropPiece" /\ lastEvent'.returned)
        => LET col == lastEvent'.pos
               mover == game.currentPlayer
               row == CHOOSE r \in 0..(ROWS - 1) :
                        game.board[r][col] = NoPiece /\ game'.board[r][col] # NoPiece
               cells == game'.winningCells
           IN  /\ (game'.status = "won" /\ game'.winner = mover)
                    <=> HasLine(game'.board, row, col, mover)
               /\ game'.status = "won"
                    => /\ Len(cells) >= 4
                       /\ \E k \in 1..Len(cells) : cells[k] = <<row, col>>
                       /\ \A j, k \in 1..Len(cells) : j # k => cells[j] # cells[k]
                       /\ \A k \in 1..Len(cells) :
                            game'.board[cells[k][1]][cells[k][2]] = game'.winner
                       /\ \E d \in Lines : \A k \in 1..Len(cells) :
                            \E t \in -3..3 :
                                cells[k] = <<row + d[1] * t, col + d[2] * t>>
               /\ game'.status # "won"
                    => game'.winner = NoPiece /\ game'.winningCells = <<>>]_vars

\* C20 witness: the game has just been won on a diagonal down-left line.
C20_Witness ==
    /\ lastEvent.type = "dropPiece" /\ lastEvent.returned
    /\ game.status = "won"
    /\ \E j, k \in 1..Len(game.winningCells) :
            /\ game.winningCells[j][1] = game.winningCells[k][1] + 1
            /\ game.winningCells[j][2] = game.winningCells[k][2] - 1

----------------------------------------------------------------------------
(* The local game: rounds of a session *)

Names == {"Ann", "Bob"}

\* the colour of cell (row, col) of a full board without a line of four: columns
\* alternate bottom-up, and the columns 0, 1, 4, 5 start with red, 2, 3, 6 with yellow
DrawnCell(row, col) ==
    IF (ROWS - 1 - row + (IF col \in {2, 3, 6} THEN 1 ELSE 0)) % 2 = 0
    THEN "red" ELSE "yellow"

\* a round one piece before its draw: every cell but the top of column 0 is taken and
\* yellow is to move (red, column 0 five times; yellow, column 2 and column 3 to the
\* top; then columns 1, 4, 5 to the top with one piece of column 6 before each)
LastMoveGame ==
    [GameStoreInit EXCEPT
        !.board = [row \in 0..(ROWS - 1) |-> [col \in 0..(COLS - 1) |->
                        IF row = 0 /\ col = 0 THEN NoPiece ELSE DrawnCell(row, col)]],
        !.currentPlayer = "yellow"]

\* the name form of the start screen
SetPlayers(redName, yellowName) ==
    /\ game.players # [red |-> redName, yellow |-> yellowName]
    /\ game' = setPlayers(game, redName, yellowName)
    /\ lastEvent' = GameEvent("setPlayers", 0, FALSE)
    /\ UNCHANGED <<document, processedOps, counter, sequenceNumberRef, lastKnownTextRef,
                   log, arrivals, minted, emitted, error, matchmaking>>

InitSession ==
    /\ document = [r \in Clients |-> createEmptyDocument]
    /\ processedOps = [r \in Clients |-> {}]
    /\ counter = [r \in Clients |-> 0]
    /\ sequenceNumberRef = [r \in Clients |-> 0]
    /\ lastKnownTextRef = [r \in Clients |-> <<>>]
    /\ log = <<>>
    /\ arrivals = [r \in Clients |-> <<>>]
    /\ minted = [r \in Clients |-> <<>>]
    /\ emitted = <<>>
    /\ lastEvent = NoEvent
    /\ game \in {GameStoreInit, LastMoveGame}
    /\ error = [r \in Clients |-> NoError]
    /\ matchmaking = MatchmakingInit

NextSession ==
    \/ \E redName, yellowName \in Names : SetPlayers(redName, yellowName)
    \/ \E col \in 0..MaxSessionCol : DropPiece(col)
    \/ ResetGame

SpecSession == InitSession /\ [][NextSession]_vars

\* C21: resetGame, called in any state (playing, won or draw), yields an empty board,
\* currentPlayer red, winner null, no winning cells and status 'playing', and leaves
\* the player names and the session statistics unchanged.
C21_ResetGame ==
    [][lastEvent'.type = "resetGame"
        => /\ game'.board = createEmptyBoard
           /\ game'.currentPlayer = "red"
           /\ game'.winner = NoPiece
           /\ game'.winningCells = <<>>
           /\ game'.status = "playing"
           /\ game'.players = game.players
           /\ game'.stats = game.stats]_vars

\* C21 witness: a drawn round has been reset while names were set and the statistics
\* counted the draw.
C21_Witness ==
    /\ lastEvent.type = "resetGame"
    /\ game.board = createEmptyBoard
    /\ game.players.red \in Names
    /\ game.stats.draws = 1

----------------------------------------------------------------------------
(* The text field and the document *)

----------------------------------------------------------------------------
(* Local operations and their listener copies *)

\* C26: an operation a replica originates is applied to the replica's own document
\* exactly once: sendOperations puts the key of every operation of the batch into the
\* processed set and applies the batch once, and whenever the listener later hands the
\* replica a stored operation it originated (or has taken before), in any order and any
\* number of times, the copy is skipped and document, processed set and clock stay.
C26_OwnOperationOnce ==
    /\ [][lastEvent'.type = "input"
          => LET r == lastEvent'.replica
             IN  /\ \A k \in 1..Len(emitted') :
                        OpKey(emitted'[k].type, emitted'[k].charId) \in processedOps'[r]
                 /\ document'[r] = ApplyAll(document[r], emitted')
                 /\ \A k \in 1..Len(emitted') :
                        lastEvent'.pos + k - 1 \in Range(arrivals'[r])]_vars
    /\ [][(lastEvent'.type = "deliver" /\ lastEvent'.pos \in Range(arrivals[lastEvent'.replica]))
          => LET r == lastEvent'.replica
             IN  /\ lastEvent'.skipped
                 /\ document'[r] = document[r]
                 /\ processedOps'[r] = processedOps[r]
                 /\ counter'[r] = counter[r]]_vars

\* C26 witness: the listener has just handed a replica its own Insert, the copy was
\* skipped, and the document holds the inserted character once.
C26_Witness ==
    /\ lastEvent.type = "deliver" /\ lastEvent.skipped /\ lastEvent.again
    /\ log[lastEvent.pos].type = "insert"
    /\ log[lastEvent.pos].author = lastEvent.replica
    /\ Cardinality({k \in 1..Len(document[lastEvent.replica]) :
            document[lastEvent.replica][k].id = log[lastEvent.pos].charId}) = 1
    /\ Len(log) >= 2

----------------------------------------------------------------------------
(* Rejected writes *)

\* the elements of seq at the positions in indices, in their order
Pick(seq, indices) ==
    LET idx(k) == CHOOSE i \in indices : Cardinality({j \in indices : j < i}) = k - 1
    IN  [k \in 1..Cardinality(indices) |-> seq[idx(k)]]

\* an input event at r whose batch is not stored completely: at least one addDoc is
\* rejected, the others (written) reach the collection (the model takes one rejected
\* batch per run: an error state, once set, guards the action)
HandleInputRejected(r, newText, room) ==
    LET batch == handleInput(document[r], lastKnownTextRef[r], newText, r,
                             sequenceNumberRef[r], counter[r])
        operations == batch.operations
        sent == sendOperationsRejected([document |-> document[r],
                                        processedOps |-> processedOps[r],
                                        counter |-> batch.counter,
                                        error |-> error[r]], operations)
        inserts == SelectSeq(operations, LAMBDA op : op.type = "insert")
    IN  /\ Len(newText) <= MAX_CHARACTERS
        /\ newText # lastKnownTextRef[r]
        /\ Len(operations) > 0
        /\ \A q \in Clients : error[q] = NoError
        /\ \E written \in (SUBSET (1..Len(operations))) \ {1..Len(operations)} :
             LET stored == Pick(operations, written)
             IN  /\ Len(log) + Len(stored) <= room
                 /\ log' = log \o [k \in 1..Len(stored) |-> ToFirestore(stored[k])]
                 /\ arrivals' = [arrivals EXCEPT
                        ![r] = @ \o [k \in 1..Len(stored) |-> Len(log) + k]]
        /\ document' = [document EXCEPT ![r] = sent.document]
        /\ processedOps' = [processedOps EXCEPT ![r] = sent.processedOps]
        /\ counter' = [counter EXCEPT ![r] = sent.counter]
        /\ error' = [error EXCEPT ![r] = sent.error]
        /\ sequenceNumberRef' = [sequenceNumberRef EXCEPT
                ![r] = SequenceEffect(sent.document, r, batch.sequenceNumber)]
        /\ lastKnownTextRef' = [lastKnownTextRef EXCEPT
                ![r] = IF sent.document = document[r]
                       THEN newText ELSE RenderEffect(sent.document)]
        /\ minted' = [minted EXCEPT
                ![r] = @ \o [k \in 1..Len(inserts) |-> inserts[k].charId]]
        /\ emitted' = operations
        /\ lastEvent' = Event("sendFailed", r, Len(log) + 1, FALSE, FALSE, newText)
        /\ UNCHANGED <<game, matchmaking>>

NextFail ==
    \/ \E r \in Clients, newText \in InputTexts : HandleInput(r, newText, MaxFailLog)
    \/ \E r \in Clients, newText \in InputTexts : HandleInputRejected(r, newText, MaxFailLog)
    \/ \E r \in Clients, i \in 1..Len(log) : Deliver(r, i)

SpecFail == Init /\ [][NextFail]_vars

\* C28: when writing a batch to the operation store fails, sendOperations sets the
\* error state and rolls nothing back: the replica's document is the old one with the
\* whole batch applied, every key of the batch is in the processed set, and no later
\* step takes a key out of the processed set.
C28_NoRollback ==
    /\ [][lastEvent'.type = "sendFailed"
          => LET r == lastEvent'.replica
             IN  /\ error'[r] = "Failed to send operations"
                 /\ document'[r] = ApplyAll(document[r], emitted')
                 /\ \A k \in 1..Len(emitted') :
                        OpKey(emitted'[k].type, emitted'[k].charId) \in processedOps'[r]
                 /\ Len(log') < Len(log) + Len(emitted')]_vars
    /\ [][\A r \in Clients : processedOps[r] \subseteq processedOps'[r]]_vars

\* C28 witness: a write has just been rejected; the error is set and the replica's
\* document holds a character no stored operation inserts.
C28_Witness ==
    /\ lastEvent.type = "sendFailed"
    /\ error[lastEvent.replica] # NoError
    /\ \E k \in 1..Len(document[lastEvent.replica]) :
            \A i \in 1..Len(log) :
                log[i].charId # document[lastEvent.replica][k].id

----------------------------------------------------------------------------
(* Matchmaking: every player runs useMatchmaking against the shared collections *)

MatchEvent(type, p) == Event(type, p, 0, FALSE, FALSE, <<>>)

\* joinQueue(): setDoc replaces matchmaking/<uid> by a waiting entry stamped with the
\* server time, then isSearching is set (the button shows while it is false)
JoinQueue(p) ==
    /\ ~matchmaking.isSearching[p]
    /\ matchmaking.now < MaxJoins
    /\ matchmaking' = [matchmaking EXCEPT
            !.entries[p] = [status |-> "waiting", gameId |-> 0,
                            joinedAt |-> matchmaking.now + 1],
            !.now = @ + 1,
            !.gameId[p] = 0,
            !.isSearching[p] = TRUE]
    /\ lastEvent' = MatchEvent("joinQueue", p)
    /\ UNCHANGED <<document, processedOps, counter, sequenceNumberRef, lastKnownTextRef,
                   log, arrivals, minted, emitted, game, error>>

\* leaveQueue(): deleteDoc of the own entry, isSearching false
LeaveQueue(p) ==
    /\ matchmaking.isSearching[p]
    /\ matchmaking' = [matchmaking EXCEPT !.entries[p] = NoEntry,
                                          !.isSearching[p] = FALSE]
    /\ lastEvent' = MatchEvent("leaveQueue", p)
    /\ UNCHANGED <<document, processedOps, counter, sequenceNumberRef, lastKnownTextRef,
                   log, arrivals, minted, emitted, game, error>>

\* a snapshot of the waiting list reaches a searching player: with two or more waiting
\* players and the player itself the oldest, the callback picks the second oldest as
\* opponent and goes on to its transaction
WaitingSnapshot(p) ==
    LET waiting == waitingPlayers(matchmaking.entries)
    IN  /\ matchmaking.isSearching[p]
        /\ Len(matchmaking.attempts[p]) < MaxAttempts
        /\ Len(waiting) >= 2
        /\ waiting[1] = p
        /\ matchmaking' = [matchmaking EXCEPT !.attempts[p] = Append(@, waiting[2])]
        /\ lastEvent' = MatchEvent("waitingSnapshot", p)
        /\ UNCHANGED <<document, processedOps, counter, sequenceNumberRef,
                       lastKnownTextRef, log, arrivals, minted, emitted, game, error>>

\* the transaction of the oldest pending callback of p commits, with either colour
CreateMatch(p) ==
    /\ Len(matchmaking.attempts[p]) > 0
    /\ \E iAmRed \in BOOLEAN :
          matchmaking' = [runTransaction(matchmaking, p, Head(matchmaking.attempts[p]),
                                         iAmRed)
                            EXCEPT !.attempts[p] = Tail(@)]
    /\ lastEvent' = MatchEvent("createMatch", p)
    /\ UNCHANGED <<document, processedOps, counter, sequenceNumberRef, lastKnownTextRef,
                   log, arrivals, minted, emitted, game, error>>

\* the listener on the own entry sees it matched: gameId is set, isSearching cleared,
\* the entry deleted
EntrySnapshot(p) ==
    /\ matchmaking.isSearching[p]
    /\ matchmaking.entries[p].status = "matched"
    /\ matchmaking.entries[p].gameId # 0
    /\ matchmaking' = [matchmaking EXCEPT
            !.gameId[p] = matchmaking.entries[p].gameId,
            !.isSearching[p] = FALSE,
            !.entries[p] = NoEntry]
    /\ lastEvent' = MatchEvent("entrySnapshot", p)
    /\ UNCHANGED <<document, processedOps, counter, sequenceNumberRef, lastKnownTextRef,
                   log, arrivals, minted, emitted, game, error>>

NextMatch ==
    \/ \E p \in Players : JoinQueue(p)
    \/ \E p \in Players : LeaveQueue(p)
    \/ \E p \in Players : WaitingSnapshot(p)
    \/ \E p \in Players : CreateMatch(p)
    \/ \E p \in Players : EntrySnapshot(p)

SpecMatch == Init /\ [][NextMatch]_vars

\* the players whose entry this step sets to matched
NewlyMatched(before, after) ==
    {p \in Players : /\ after.entries[p].status = "matched"
                     /\ before.entries[p] # after.entries[p]}

\* C30: for any interleaving of searching clients and their snapshots of the waiting
\* list, a matchmaking entry is moved from 'waiting' to 'matched' at most once (only a
\* waiting entry is set to matched, and a matched entry is not written again until it
\* is deleted or replaced by a new join), and whenever a game is created exactly two
\* entries are set to 'matched' with that game's id, and these two players are the
\* game's red and yellow players; without a new game no entry is set to matched.
C30_MatchOnce ==
    [][LET newly == NewlyMatched(matchmaking, matchmaking')
           created == Len(matchmaking'.games) - Len(matchmaking.games)
           newGame == matchmaking'.games[Len(matchmaking'.games)]
       IN  /\ \A p \in newly : matchmaking.entries[p].status = "waiting"
           /\ \A p \in Players :
                (/\ matchmaking.entries[p].status = "matched"
                 /\ matchmaking'.entries[p] # matchmaking.entries[p])
                => \/ matchmaking'.entries[p] = NoEntry
                   \/ /\ lastEvent'.type = "joinQueue" /\ lastEvent'.replica = p
                      /\ matchmaking'.entries[p].joinedAt > matchmaking.entries[p].joinedAt
           /\ created \in {0, 1}
           /\ created = 0 => newly = {}
           /\ created = 1
                => /\ Cardinality(newly) = 2
                   /\ \A p \in newly :
                        matchmaking'.entries[p].gameId = Len(matchmaking'.games)
                   /\ newly = {newGame.red, newGame.yellow}
                   /\ newGame.red # newGame.yellow]_vars

\* C30 witness: a transaction has just run with a game in the collection and two
\* entries matched, while its player has a further transaction pending from another
\* snapshot that showed the same two waiting players.
C30_Witness ==
    /\ lastEvent.type = "createMatch"
    /\ Len(matchmaking.games) >= 1
    /\ Cardinality({p \in Players : matchmaking.entries[p].status = "matched"}) = 2
    /\ Len(matchmaking.attempts[lastEvent.replica]) > 0

----------------------------------------------------------------------------
(* Coloured segments *)

\* the texts of the segments from position k on, concatenated
RECURSIVE SegmentTexts(_, _)
SegmentTexts(segments, k) ==
    IF k > Len(segments) THEN <<>>
    ELSE segments[k].text \o SegmentTexts(segments, k + 1)

----------------------------------------------------------------------------
(* The batch of the prefix/suffix differ *)

\* the length of the longest common prefix of old and new
CommonPrefixLen(old, new) ==
    LET least == IF Len(old) <= Len(new) THEN Len(old) ELSE Len(new)
    IN  CHOOSE p \in 0..least :
            /\ SubSeq(old, 1, p) = SubSeq(new, 1, p)
            /\ p = least \/ old[p + 1] # new[p + 1]

\* the length of the longest common suffix of old and new that leaves the prefix alone
CommonSuffixLen(old, new) ==
    LET least == (IF Len(old) <= Len(new) THEN Len(old) ELSE Len(new))
                    - CommonPrefixLen(old, new)
    IN  CHOOSE q \in 0..least :
            /\ SubSeq(old, Len(old) - q + 1, Len(old))
                    = SubSeq(new, Len(new) - q + 1, Len(new))
            /\ q = least \/ old[Len(old) - q] # new[Len(new) - q]

Deletes(operations) == SelectSeq(operations, LAMBDA op : op.type = "delete")

Inserts(operations) == SelectSeq(operations, LAMBDA op : op.type = "insert")

\* C22: for any old document and new text, the prefix/suffix differ emits exactly one
\* Delete for each character of the old changed region [prefix_len, old_len -
\* suffix_len) and for no other character, in descending index order (the last
\* character of the region first).
C22_DeletesOfRegion ==
    [][lastEvent'.type = "input"
        => LET r == lastEvent'.replica
               chars == document[r]
               old == lastKnownTextRef[r]
               oldEnd == Len(old) - CommonSuffixLen(old, lastEvent'.text)
               deletes == Deletes(emitted')
           IN  /\ Len(deletes) = oldEnd - CommonPrefixLen(old, lastEvent'.text)
               /\ \A j \in 1..Len(deletes) :
                    deletes[j].charId = chars[oldEnd - j + 1].id]_vars

\* C22 witness: an input has replaced a region of two characters: the batch holds two
\* Deletes and an Insert.
C22_Witness ==
    /\ lastEvent.type = "input"
    /\ Len(Deletes(emitted)) = 2
    /\ Len(Inserts(emitted)) >= 1

\* C23: in every batch the differ emits (handleInput, and diffTextChanges), the first
\* Insert's afterId is the id of the character immediately preceding the changed
\* region (null when the region starts at position 0), and every later Insert's
\* afterId is the charId of the Insert emitted immediately before it, never the id of
\* a character of the old document.
C23_InsertChain ==
    [][lastEvent'.type \in {"input", "diff"}
        => LET r == lastEvent'.replica
               chars == document[r]
               prefixLen == CommonPrefixLen(documentToText(chars), lastEvent'.text)
               inserts == Inserts(emitted')
           IN  /\ Len(inserts) > 0
                    => inserts[1].afterId
                        = (IF prefixLen = 0 THEN Null ELSE chars[prefixLen].id)
               /\ \A k \in 2..Len(inserts) :
                    /\ inserts[k].afterId = inserts[k - 1].charId
                    /\ inserts[k].afterId \notin Ids(chars)]_vars

\* C24: every operation of an emitted batch carries the timestamp of one
\* getNextTimestamp call made in emission order: the k-th operation has the clock
\* value before the batch plus k, so the timestamps of a batch are distinct and
\* strictly increasing in emission order.
C24_BatchTimestamps ==
    [][lastEvent'.type = "input"
        => /\ \A k \in 1..Len(emitted') :
                emitted'[k].timestamp = counter[lastEvent'.replica] + k
           /\ \A j, k \in 1..Len(emitted') :
                j < k => emitted'[j].timestamp < emitted'[k].timestamp]_vars

\* C24 witness: a batch of at least three operations, a Delete first and an Insert
\* last, has been stamped by a clock that had already counted.
C24_Witness ==
    /\ lastEvent.type = "input"
    /\ Len(emitted) >= 3
    /\ emitted[1].type = "delete" /\ emitted[Len(emitted)].type = "insert"
    /\ emitted[1].timestamp > 1

====
